---------------------------- MODULE Spec2Model ----------------------------
(***************************************************************************)
(* Maze solver of src/unnamed/part_000 (notebook cells "Node" and "Maze"): *)
(* grid construction from text (Maze.__init__), the adjacency and          *)
(* heuristic queries, and the best-first search loop of Maze.solve over a  *)
(* heapq frontier ordered by Node.__lt__.                                  *)
(*                                                                         *)
(* Coordinates are 0-based (row, col) pairs <<i, j>> as in the source; a   *)
(* Python list is a TLA+ sequence, so Python index p is TLA+ index p + 1.  *)
(***************************************************************************)
EXTENDS Integers, Sequences, FiniteSets, TLC

VARIABLES
    maze_str,     \* the text handed to Maze(...), a sequence of characters
    maze,         \* the Maze object, or the exception its constructor raised
    pc,           \* pc[c]: position of solve call c
    algorithm,    \* algorithm[c]: the selector call c was given
    frontier,     \* frontier[c]: the heapq list of call c
    visited,      \* visited[c]: dict state -> best cost
    all_visited,  \* all_visited[c]: set of states
    popped,       \* popped[c]: <<state, cost, heuristic>> of every node
                  \* heappop has returned so far, in order
    result        \* result[c]: what call c returned or raised

vars == <<maze_str, maze, pc, algorithm, frontier, visited, all_visited,
          popped, result>>

(***************************************************************************)
(* Bounds of the model.                                                    *)
(***************************************************************************)
MaxTextLen == 5    \* longest maze_str of the construction specification
MaxCells == 9      \* largest height * width of the grids searched
MaxWalls == 2      \* most '#' cells in a grid searched
RepeatCells == 8   \* largest height * width of the grids searched twice
ConcCells == 7     \* largest height * width of the grids searched by two
                   \* interleaved calls
StaleRows == 6     \* rows of the grids of SpecStale
StaleWalls == 3    \* most '#' cells in a grid of SpecStale
FairHeight == 5    \* rows of the grids of SpecFair
FairWalls == 3     \* most '#' cells in a grid of SpecFair

Calls == {1, 2}    \* two solve calls on the same Maze object

(***************************************************************************)
(* Characters.                                                             *)
(***************************************************************************)
NL == "\n"
Alphabet == {"#", ".", " ", "A", "B", NL}

\* str.lower() on one character, for the letters the selectors use.
LowerChar(ch) ==
    CASE ch = "A" -> "a"
      [] ch = "G" -> "g"
      [] ch = "R" -> "r"
      [] ch = "E" -> "e"
      [] ch = "D" -> "d"
      [] ch = "Y" -> "y"
      [] OTHER -> ch

\* str.lower(): every character lowered, length and order kept.
Lower(s) == [k \in 1..Len(s) |-> LowerChar(s[k])]

\* str.isspace() of one character: of the alphabet, blank and newline are.
IsSpace(ch) == ch \in {" ", NL}

\* bool(line.strip()): the line has a character that is not whitespace.
StripNonEmpty(line) == \E k \in 1..Len(line) : ~IsSpace(line[k])

\* maze_str.split('\n'): the pieces between newlines, empty pieces kept.
RECURSIVE SplitFrom(_, _, _)
SplitFrom(s, k, cur) ==
    IF k > Len(s) THEN <<cur>>
    ELSE IF s[k] = NL THEN <<cur>> \o SplitFrom(s, k + 1, <<>>)
         ELSE SplitFrom(s, k + 1, Append(cur, s[k]))

Split(s) == SplitFrom(s, 1, <<>>)

\* [list(line) for line in maze_str.split('\n') if line.strip()]
RECURSIVE KeepRows(_)
KeepRows(lines) ==
    IF lines = <<>> THEN <<>>
    ELSE IF StripNonEmpty(Head(lines))
         THEN <<Head(lines)>> \o KeepRows(Tail(lines))
         ELSE KeepRows(Tail(lines))

Rows(s) == KeepRows(Split(s))

\* np.array(rows).shape unpacks into (height, width) only for a non-empty
\* list of rows of one common length; otherwise the constructor raises.
IsRectangular(rows) ==
    /\ Len(rows) > 0
    /\ \A r \in 1..Len(rows) : Len(rows[r]) = Len(rows[1])

None == [none |-> TRUE]

\* The scan for a marker: row-major, every match overwrites the previous
\* one, so the last occurrence is kept; None when there is no occurrence.
RECURSIVE ScanFrom(_, _, _, _)
ScanFrom(rows, mark, p, found) ==
    IF p >= Len(rows) * Len(rows[1]) THEN found
    ELSE LET i == p \div Len(rows[1])
             j == p % Len(rows[1])
         IN  ScanFrom(rows, mark, p + 1,
                      IF rows[i + 1][j + 1] = mark THEN <<i, j>> ELSE found)

FindMarker(rows, mark) == ScanFrom(rows, mark, 0, None)

\* Maze.__init__: the object built, or the ValueError raised.
MazeInit(s) ==
    LET rows == Rows(s) IN
    IF ~IsRectangular(rows)
    THEN [ok |-> FALSE, error |-> "ValueError", at |-> "shape"]
    ELSE LET st == FindMarker(rows, "A")
             gl == FindMarker(rows, "B")
         IN  IF st = None \/ gl = None
             THEN [ok |-> FALSE, error |-> "ValueError", at |-> "markers"]
             ELSE [ok |-> TRUE, cells |-> rows,
                   height |-> Len(rows), width |-> Len(rows[1]),
                   start |-> st, goal |-> gl]


(***************************************************************************)
(* Grid queries.                                                           *)
(***************************************************************************)
\* self.maze[i, j]
Cell(m, i, j) == m.cells[i + 1][j + 1]

\* Directions with the last move left out.
DirectionsNoUp(state) ==
    LET i == state[1]
        j == state[2]
    IN  << <<"right", <<i, j + 1>> >>,
           <<"down",  <<i + 1, j>> >>,
           <<"left",  <<i, j - 1>> >> >>

\* Directions with the first two moves exchanged.
DirectionsDownFirst(state) ==
    LET i == state[1]
        j == state[2]
    IN  << <<"down",  <<i + 1, j>> >>,
           <<"right", <<i, j + 1>> >>,
           <<"left",  <<i, j - 1>> >>,
           <<"up",    <<i - 1, j>> >> >>

\* The four candidate moves, in the order the source lists them.
Directions(state) ==
    LET i == state[1]
        j == state[2]
    IN  << <<"right", <<i, j + 1>> >>,
           <<"down",  <<i + 1, j>> >>,
           <<"left",  <<i, j - 1>> >>,
           <<"up",    <<i - 1, j>> >> >>

\* The filter of the list comprehension in Maze.neighbors.
Passable(m, cell) ==
    /\ 0 <= cell[1] /\ cell[1] < m.height
    /\ 0 <= cell[2] /\ cell[2] < m.width
    /\ Cell(m, cell[1], cell[2]) # "#"

RECURSIVE FilterMoves(_, _)
FilterMoves(m, moves) ==
    IF moves = <<>> THEN <<>>
    ELSE IF Passable(m, Head(moves)[2])
         THEN <<Head(moves)>> \o FilterMoves(m, Tail(moves))
         ELSE FilterMoves(m, Tail(moves))

\* Maze.neighbors
Neighbors(m, state) == FilterMoves(m, Directions(state))

Abs(x) == IF x < 0 THEN -x ELSE x

\* Heuristic counting every row and column twice.
HeuristicDoubled(m, state) ==
    2 * (Abs(state[1] - m.goal[1]) + Abs(state[2] - m.goal[2]))


\* Maze.heuristic: Manhattan distance to the goal.
Heuristic(m, state) ==
    Abs(state[1] - m.goal[1]) + Abs(state[2] - m.goal[2])

(***************************************************************************)
(* Nodes and the heapq frontier.                                           *)
(***************************************************************************)
\* Node.__init__
Node(state, parent, action, cost, heuristic) ==
    [state |-> state, parent |-> parent, action |-> action,
     cost |-> cost, heuristic |-> heuristic]

\* Lt that prefers the node farther from the goal, whatever it cost.
LtFarthestFirst(a, b) == a.heuristic > b.heuristic


\* Lt with the comparison turned round.
LtReversed(a, b) == (a.cost + a.heuristic) > (b.cost + b.heuristic)

\* Node.__lt__
Lt(a, b) == (a.cost + a.heuristic) < (b.cost + b.heuristic)

\* heap[pos] and heap[pos] = item for a 0-based position.
At(heap, pos) == heap[pos + 1]
Put(heap, pos, item) == [heap EXCEPT ![pos + 1] = item]

\* heapq._siftdown(heap, startpos, pos) with newitem carried along:
\* parents that newitem is less than move down, then newitem is stored.
RECURSIVE SiftDown(_, _, _, _)
SiftDown(heap, startpos, pos, newitem) ==
    IF pos > startpos
    THEN LET parentpos == (pos - 1) \div 2
             parent == At(heap, parentpos)
         IN  IF Lt(newitem, parent)
             THEN SiftDown(Put(heap, pos, parent), startpos, parentpos, newitem)
             ELSE Put(heap, pos, newitem)
    ELSE Put(heap, pos, newitem)

\* heapq.heappush(heap, item)
HeapPush(heap, item) ==
    LET h == Append(heap, item)
    IN  SiftDown(h, 0, Len(h) - 1, item)

\* heapq._siftup(heap, pos): the smaller child bubbles up until a leaf is
\* hit (the right child wins unless the left one is less than it), then
\* newitem is sifted down from the leaf.
RECURSIVE SiftUpFrom(_, _, _, _)
SiftUpFrom(heap, startpos, pos, newitem) ==
    LET endpos == Len(heap)
        childpos == 2 * pos + 1
    IN  IF childpos < endpos
        THEN LET rightpos == childpos + 1
                 pick == IF rightpos < endpos
                            /\ ~Lt(At(heap, childpos), At(heap, rightpos))
                         THEN rightpos ELSE childpos
             IN  SiftUpFrom(Put(heap, pos, At(heap, pick)), startpos, pick, newitem)
        ELSE SiftDown(Put(heap, pos, newitem), startpos, pos, newitem)

SiftUp(heap, pos) == SiftUpFrom(heap, pos, pos, At(heap, pos))

\* heapq.heappop(heap): the item returned and the heap left behind.
HeapPop(heap) ==
    LET lastelt == heap[Len(heap)]
        rest == SubSeq(heap, 1, Len(heap) - 1)
    IN  IF rest # <<>>
        THEN [item |-> rest[1], heap |-> SiftUp(Put(rest, 0, lastelt), 0)]
        ELSE [item |-> lastelt, heap |-> rest]

(***************************************************************************)
(* Maze.solve, one call c at a time.  pc[c] is "idle" before the call,     *)
(* "loop" at the head of `while frontier`, "returned" after the return     *)
(* statement and "raised" after either raise statement.                    *)
(***************************************************************************)
AStarSel == <<"a", "*">>
GreedySel == <<"g", "r", "e", "e", "d", "y">>

\* The selectors the calls are given.
Selectors ==
    { AStarSel, <<"A", "*">>, GreedySel,
      <<"a", "-", "s", "t", "a", "r">>, <<"b", "f", "s">> }

\* Rejected without the lower().
RejectedCaseSensitive(alg) == alg \notin {AStarSel, GreedySel}

\* algorithm.lower() not in ["a*", "greedy"]
Rejected(alg) == Lower(alg) \notin {AStarSel, GreedySel}

\* The priority local of the expansion: computed per strategy, then never
\* handed to the Node nor to heappush.
Priority(m, alg, new_cost, neighbor_state) ==
    IF Lower(alg) = GreedySel
    THEN Heuristic(m, neighbor_state)
    ELSE new_cost + Heuristic(m, neighbor_state)

\* visited[state] = cost
SetItem(d, k, v) == [x \in DOMAIN d \cup {k} |-> IF x = k THEN v ELSE d[x]]

\* Improves without the cost-improvement check.
ImprovesAlways(vis, neighbor_state, new_cost) == TRUE


\* Improves with <= for <.
ImprovesNonStrict(vis, neighbor_state, new_cost) ==
    \/ neighbor_state \notin DOMAIN vis
    \/ new_cost <= vis[neighbor_state]

\* neighbor_state not in visited or new_cost < visited[neighbor_state]
Improves(vis, neighbor_state, new_cost) ==
    \/ neighbor_state \notin DOMAIN vis
    \/ new_cost < vis[neighbor_state]

\* ExpandMoves that adds the expanded state, not the pushed one, to
\* all_visited.
RECURSIVE ExpandMovesPoppedOnly(_, _, _, _, _)
ExpandMovesPoppedOnly(m, alg, current_node, moves, st) ==
    IF moves = <<>> THEN st
    ELSE LET action == Head(moves)[1]
             neighbor_state == Head(moves)[2]
             new_cost == current_node.cost + 1
             priority == Priority(m, alg, new_cost, neighbor_state)
             neighbor_node == Node(neighbor_state, current_node, action,
                                   new_cost, Heuristic(m, neighbor_state))
         IN  IF Improves(st.visited, neighbor_state, new_cost)
             THEN ExpandMovesPoppedOnly(m, alg, current_node, Tail(moves),
                      [frontier |-> HeapPush(st.frontier, neighbor_node),
                       visited |-> SetItem(st.visited, neighbor_state, new_cost),
                       all_visited |-> st.all_visited \cup {current_node.state}])
             ELSE ExpandMovesPoppedOnly(m, alg, current_node, Tail(moves), st)

\* ExpandMoves where a node's key cost + heuristic is the priority computed
\* for the strategy.
RECURSIVE ExpandMovesByPriority(_, _, _, _, _)
ExpandMovesByPriority(m, alg, current_node, moves, st) ==
    IF moves = <<>> THEN st
    ELSE LET action == Head(moves)[1]
             neighbor_state == Head(moves)[2]
             new_cost == current_node.cost + 1
             priority == Priority(m, alg, new_cost, neighbor_state)
             neighbor_node == Node(neighbor_state, current_node, action,
                                   new_cost, priority - new_cost)
         IN  IF Improves(st.visited, neighbor_state, new_cost)
             THEN ExpandMovesByPriority(m, alg, current_node, Tail(moves),
                      [frontier |-> HeapPush(st.frontier, neighbor_node),
                       visited |-> SetItem(st.visited, neighbor_state, new_cost),
                       all_visited |-> st.all_visited \cup {neighbor_state}])
             ELSE ExpandMovesByPriority(m, alg, current_node, Tail(moves), st)


\* The body of `for action, neighbor_state in self.neighbors(...)` run over
\* the moves left, on the locals st = [frontier, visited, all_visited].
RECURSIVE ExpandMoves(_, _, _, _, _)
ExpandMoves(m, alg, current_node, moves, st) ==
    IF moves = <<>> THEN st
    ELSE LET action == Head(moves)[1]
             neighbor_state == Head(moves)[2]
             new_cost == current_node.cost + 1
             priority == Priority(m, alg, new_cost, neighbor_state)
             neighbor_node == Node(neighbor_state, current_node, action,
                                   new_cost, Heuristic(m, neighbor_state))
         IN  IF Improves(st.visited, neighbor_state, new_cost)
             THEN ExpandMoves(m, alg, current_node, Tail(moves),
                      [frontier |-> HeapPush(st.frontier, neighbor_node),
                       visited |-> SetItem(st.visited, neighbor_state, new_cost),
                       all_visited |-> st.all_visited \cup {neighbor_state}])
             ELSE ExpandMoves(m, alg, current_node, Tail(moves), st)

\* The reconstruction loop: states and actions appended from the goal node
\* back while node.parent is not None.
RECURSIVE BackStates(_)
BackStates(node) ==
    IF node.parent = None THEN <<>>
    ELSE <<node.state>> \o BackStates(node.parent)

RECURSIVE BackActions(_)
BackActions(node) ==
    IF node.parent = None THEN <<>>
    ELSE <<node.action>> \o BackActions(node.parent)

\* list.reverse()
Reverse(s) == [k \in 1..Len(s) |-> s[Len(s) + 1 - k]]

\* PathOf without the reverse().
PathOfUnreversed(m, node) == Append(BackStates(node), m.start)

\* path.append(self.start); path.reverse()
PathOf(m, node) == Reverse(Append(BackStates(node), m.start))

\* ActionsOf without the reverse().
ActionsOfUnreversed(node) == BackActions(node)


\* actions.reverse()
ActionsOf(node) == Reverse(BackActions(node))

\* What the record of pops keeps of a node.
Trace(node) == <<node.state, node.cost, node.heuristic>>

Finished(c) == pc[c] \in {"returned", "raised"}

\* solve: the strategy check fails.
SolveRejected(c, alg) ==
    /\ maze.ok
    /\ pc[c] = "idle"
    /\ Rejected(alg)
    /\ algorithm' = [algorithm EXCEPT ![c] = alg]
    /\ pc' = [pc EXCEPT ![c] = "raised"]
    /\ result' = [result EXCEPT ![c] =
                     [ok |-> FALSE, error |-> "ValueError", at |-> "algorithm"]]
    /\ UNCHANGED <<maze_str, maze, frontier, visited, all_visited,
                   popped>>

\* SolveStart that leaves all_visited empty.
SolveStartUnseeded(c, alg) ==
    /\ maze.ok
    /\ pc[c] = "idle"
    /\ ~Rejected(alg)
    /\ algorithm' = [algorithm EXCEPT ![c] = alg]
    /\ LET start_node == Node(maze.start, None, None, 0,
                              Heuristic(maze, maze.start))
       IN  frontier' = [frontier EXCEPT ![c] = HeapPush(<<>>, start_node)]
    /\ visited' = [visited EXCEPT ![c] = SetItem(<<>>, maze.start, 0)]
    /\ all_visited' = [all_visited EXCEPT ![c] = {}]
    /\ pc' = [pc EXCEPT ![c] = "loop"]
    /\ UNCHANGED <<maze_str, maze, popped, result>>

\* SolveStart whose best-cost table is kept from the call before.
SolveStartShared(c, alg) ==
    /\ maze.ok
    /\ pc[c] = "idle"
    /\ ~Rejected(alg)
    /\ algorithm' = [algorithm EXCEPT ![c] = alg]
    /\ LET start_node == Node(maze.start, None, None, 0,
                              Heuristic(maze, maze.start))
       IN  frontier' = [frontier EXCEPT ![c] = HeapPush(<<>>, start_node)]
    /\ visited' = [visited EXCEPT ![c] =
                      SetItem(IF c = 1 THEN <<>> ELSE visited[c - 1],
                              maze.start, 0)]
    /\ all_visited' = [all_visited EXCEPT ![c] = {maze.start}]
    /\ pc' = [pc EXCEPT ![c] = "loop"]
    /\ UNCHANGED <<maze_str, maze, popped, result>>

\* solve: the strategy check passes; start node pushed, tables initialised.
SolveStart(c, alg) ==
    /\ maze.ok
    /\ pc[c] = "idle"
    /\ ~Rejected(alg)
    /\ algorithm' = [algorithm EXCEPT ![c] = alg]
    /\ LET start_node == Node(maze.start, None, None, 0,
                              Heuristic(maze, maze.start))
       IN  frontier' = [frontier EXCEPT ![c] = HeapPush(<<>>, start_node)]
    /\ visited' = [visited EXCEPT ![c] = SetItem(<<>>, maze.start, 0)]
    /\ all_visited' = [all_visited EXCEPT ![c] = {maze.start}]
    /\ pc' = [pc EXCEPT ![c] = "loop"]
    /\ UNCHANGED <<maze_str, maze, popped, result>>

\* One iteration that pops the goal: reconstruct and return.
PopGoal(c) ==
    /\ pc[c] = "loop"
    /\ frontier[c] # <<>>
    /\ LET pop == HeapPop(frontier[c])
           current_node == pop.item
       IN  /\ current_node.state = maze.goal
           /\ frontier' = [frontier EXCEPT ![c] = pop.heap]
           /\ popped' = [popped EXCEPT ![c] = Append(@, Trace(current_node))]
           /\ result' = [result EXCEPT ![c] =
                            [ok |-> TRUE,
                             path |-> PathOf(maze, current_node),
                             actions |-> ActionsOf(current_node),
                             all_visited |-> all_visited[c]]]
    /\ pc' = [pc EXCEPT ![c] = "returned"]
    /\ UNCHANGED <<maze_str, maze, algorithm, visited, all_visited>>

\* Expand on one best-cost table shared by the calls.
ExpandShared(c) ==
    /\ pc[c] = "loop"
    /\ frontier[c] # <<>>
    /\ LET pop == HeapPop(frontier[c])
           current_node == pop.item
           st == ExpandMoves(maze, algorithm[c], current_node,
                             Neighbors(maze, current_node.state),
                             [frontier |-> pop.heap, visited |-> visited[1],
                              all_visited |-> all_visited[c]])
       IN  /\ current_node.state # maze.goal
           /\ popped' = [popped EXCEPT ![c] = Append(@, Trace(current_node))]
           /\ frontier' = [frontier EXCEPT ![c] = st.frontier]
           /\ visited' = [k \in Calls |-> st.visited]
           /\ all_visited' = [all_visited EXCEPT ![c] = st.all_visited]
    /\ UNCHANGED <<maze_str, maze, pc, algorithm, result>>

\* One iteration that pops another node: expand its neighbours.
Expand(c) ==
    /\ pc[c] = "loop"
    /\ frontier[c] # <<>>
    /\ LET pop == HeapPop(frontier[c])
           current_node == pop.item
           st == ExpandMoves(maze, algorithm[c], current_node,
                             Neighbors(maze, current_node.state),
                             [frontier |-> pop.heap, visited |-> visited[c],
                              all_visited |-> all_visited[c]])
       IN  /\ current_node.state # maze.goal
           /\ popped' = [popped EXCEPT ![c] = Append(@, Trace(current_node))]
           /\ frontier' = [frontier EXCEPT ![c] = st.frontier]
           /\ visited' = [visited EXCEPT ![c] = st.visited]
           /\ all_visited' = [all_visited EXCEPT ![c] = st.all_visited]
    /\ UNCHANGED <<maze_str, maze, pc, algorithm, result>>

\* The frontier is empty at the loop head: raise "No path exists".
NoPath(c) ==
    /\ pc[c] = "loop"
    /\ frontier[c] = <<>>
    /\ pc' = [pc EXCEPT ![c] = "raised"]
    /\ result' = [result EXCEPT ![c] =
                     [ok |-> FALSE, error |-> "ValueError", at |-> "no path"]]
    /\ UNCHANGED <<maze_str, maze, algorithm, frontier, visited, all_visited,
                   popped>>

\* The Maze name before the constructor has run.
NoMaze == [ok |-> FALSE, error |-> "NameError", at |-> "unbuilt"]

\* Maze(maze_str)
Construct ==
    /\ maze = NoMaze
    /\ maze' = MazeInit(maze_str)
    /\ UNCHANGED <<maze_str, pc, algorithm, frontier, visited, all_visited,
                   popped, result>>

(***************************************************************************)
(* Inputs.                                                                 *)
(***************************************************************************)
\* Every text of at most MaxTextLen characters.
Texts == UNION { [1..n -> Alphabet] : n \in 0..MaxTextLen }

\* The text of a height x width grid: '#' on the cells of walls, 'A' at
\* st, 'B' at gl, '.' elsewhere, rows joined by newlines.
GridChar(walls, st, gl, cell) ==
    IF cell = st THEN "A"
    ELSE IF cell = gl THEN "B"
    ELSE IF cell \in walls THEN "#" ELSE "."

GridText(height, width, walls, st, gl) ==
    [k \in 1..(height * (width + 1) - 1) |->
        LET i == (k - 1) \div (width + 1)
            j == (k - 1) % (width + 1)
        IN  IF j = width THEN NL ELSE GridChar(walls, st, gl, <<i, j>>)]

CellsOf(height, width) == (0..(height - 1)) \X (0..(width - 1))

\* The grids of at most `cells` cells: both sides at least two cells, one
\* start, one goal, at most MaxWalls walls.
GridTexts(cells) ==
    UNION { UNION { UNION {
        { GridText(h, w, walls, st, gl) :
            walls \in { ws \in SUBSET (CellsOf(h, w) \ {st, gl}) :
                          Cardinality(ws) <= MaxWalls } }
        : gl \in CellsOf(h, w) \ {st} }
        : st \in CellsOf(h, w) }
        : <<h, w>> \in { hw \in (2..cells) \X (2..cells) :
                            hw[1] * hw[2] <= cells } }

Idle ==
    /\ maze = NoMaze
    /\ pc = [c \in Calls |-> "idle"]
    /\ algorithm = [c \in Calls |-> None]
    /\ frontier = [c \in Calls |-> <<>>]
    /\ visited = [c \in Calls |-> <<>>]
    /\ all_visited = [c \in Calls |-> {}]
    /\ popped = [c \in Calls |-> <<>>]
    /\ result = [c \in Calls |-> None]

(***************************************************************************)
(* Spec: a Maze built from a well-formed grid text, then one solve call    *)
(* with any selector.                                                      *)
(***************************************************************************)
Init == maze_str \in GridTexts(MaxCells) /\ Idle

Next ==
    \/ Construct
    \/ \E alg \in Selectors : SolveRejected(1, alg)
    \/ \E alg \in Selectors : SolveStart(1, alg)
    \/ PopGoal(1)
    \/ Expand(1)
    \/ NoPath(1)

Spec == Init /\ [][Next]_vars

(***************************************************************************)
(* SpecRepeat: two solve calls on the same Maze, one after the other, the  *)
(* second given the selector of the first again.                           *)
(***************************************************************************)
InitRepeat == maze_str \in GridTexts(RepeatCells) /\ Idle

\* Calls run to completion one at a time, in order.
Turn(c) == IF c = 1 THEN TRUE ELSE Finished(c - 1)

\* The selector of a call: any for the first, the same again afterwards.
Given(c, alg) == IF c = 1 THEN TRUE ELSE alg = algorithm[c - 1]

NextRepeat ==
    \/ Construct
    \/ \E c \in Calls, alg \in Selectors :
          Turn(c) /\ Given(c, alg) /\ SolveRejected(c, alg)
    \/ \E c \in Calls, alg \in Selectors :
          Turn(c) /\ Given(c, alg) /\ SolveStart(c, alg)
    \/ \E c \in Calls : Turn(c) /\ PopGoal(c)
    \/ \E c \in Calls : Turn(c) /\ Expand(c)
    \/ \E c \in Calls : Turn(c) /\ NoPath(c)

SpecRepeat == InitRepeat /\ [][NextRepeat]_vars

(***************************************************************************)
(* SpecConc: two solve calls on the same Maze, the first with 'a*' and the *)
(* second with 'greedy', their loop iterations interleaved in any order.   *)
(***************************************************************************)
InitConc == maze_str \in GridTexts(ConcCells) /\ Idle

NextConc ==
    \/ Construct
    \/ SolveStart(1, AStarSel)
    \/ SolveStart(2, GreedySel)
    \/ \E c \in Calls : PopGoal(c)
    \/ \E c \in Calls : Expand(c)
    \/ \E c \in Calls : NoPath(c)

SpecConc == InitConc /\ [][NextConc]_vars

(***************************************************************************)
(* SpecStale: one solve call on every grid of StaleRows rows and three     *)
(* columns with the start in the top-left corner and the goal in the first *)
(* column, one row above the bottom.  These are small grids where a state  *)
(* is pushed a second time at a smaller cost and its first node is popped  *)
(* later, in a search that goes on to return a path.                       *)
(***************************************************************************)
StaleTexts ==
    LET st == <<0, 0>>
        gl == <<StaleRows - 2, 0>>
    IN  { GridText(StaleRows, 3, walls, st, gl) :
            walls \in { ws \in SUBSET (CellsOf(StaleRows, 3) \ {st, gl}) :
                          Cardinality(ws) <= StaleWalls } }

InitStale == maze_str \in StaleTexts /\ Idle

NextStale ==
    \/ Construct
    \/ \E alg \in {AStarSel, GreedySel} : SolveStart(1, alg)
    \/ PopGoal(1)
    \/ Expand(1)
    \/ NoPath(1)

SpecStale == InitStale /\ [][NextStale]_vars

(***************************************************************************)
(* SpecFair: one call of solve on every grid of FairHeight rows and three  *)
(* columns with start and goal at the two ends of the first column, where  *)
(* a search that has started keeps running: solve is one sequential loop,  *)
(* so an iteration that can run does run.  An iteration is recognised by   *)
(* its pop.  These are the narrowest grids where a state is pushed twice.  *)
(***************************************************************************)
FairTexts ==
    LET st == <<0, 0>>
        gl == <<FairHeight - 1, 0>>
    IN  { GridText(FairHeight, 3, walls, st, gl) :
            walls \in { ws \in SUBSET (CellsOf(FairHeight, 3) \ {st, gl}) :
                          Cardinality(ws) <= FairWalls } }

InitFair == maze_str \in FairTexts /\ Idle

NextFair ==
    \/ Construct
    \/ \E alg \in {AStarSel, GreedySel} : SolveStart(1, alg)
    \/ PopGoal(1)
    \/ Expand(1)
    \/ NoPath(1)

\* while frontier: current_node = heapq.heappop(frontier)
IterationStarts(c) ==
    /\ pc[c] = "loop"
    /\ frontier[c] # <<>>
    /\ popped' = [popped EXCEPT
                     ![c] = Append(@, Trace(HeapPop(frontier[c]).item))]

SpecFair ==
    /\ InitFair
    /\ [][NextFair]_vars
    /\ WF_popped(IterationStarts(1))
    /\ WF_vars(NoPath(1))

(***************************************************************************)
(* SpecParse: Maze(maze_str) on every short text.                          *)
(***************************************************************************)
InitParse == maze_str \in Texts /\ Idle

NextParse == Construct

SpecParse == InitParse /\ [][NextParse]_vars

(***************************************************************************)
(* Reference notions the properties are stated against.                    *)
(***************************************************************************)
OpenCells(m) ==
    { cell \in CellsOf(m.height, m.width) : Cell(m, cell[1], cell[2]) # "#" }

Adjacent(a, b) == Abs(a[1] - b[1]) + Abs(a[2] - b[2]) = 1

\* Breadth-first search by layers: the number of steps to the goal from
\* the cells of `layer`, which are d steps from the start; -1 if none.
RECURSIVE BfsSteps(_, _, _, _)
BfsSteps(m, layer, seen, d) ==
    IF m.goal \in layer THEN d
    ELSE IF layer = {} THEN -1
    ELSE LET next == { cell \in OpenCells(m) \ seen :
                         \E from \in layer : Adjacent(from, cell) }
         IN  BfsSteps(m, next, seen \cup next, d + 1)

ShortestSteps(m) == BfsSteps(m, {m.start}, {m.start}, 0)

GoalReachable(m) == ShortestSteps(m) >= 0

IsAStar(c) == algorithm[c] \in {AStarSel, <<"A", "*">>}
IsGreedy(c) == algorithm[c] = GreedySel

Steps(c) == Len(result[c].path) - 1

\* The 3x3 grid of the scenario: start top-left, goal bottom-right, one
\* wall, in the centre.
CentreWall3x3(m) ==
    /\ m.height = 3 /\ m.width = 3
    /\ m.start = <<0, 0>> /\ m.goal = <<2, 2>>
    /\ CellsOf(3, 3) \ OpenCells(m) = {<<1, 1>>}

\* A wall-free n x n grid with start and goal at opposite corners.
OpenSquareCorners(m) ==
    /\ m.height = m.width
    /\ OpenCells(m) = CellsOf(m.height, m.width)
    /\ LET n == m.height
       IN  \/ {m.start, m.goal} = {<<0, 0>>, <<n - 1, n - 1>>}
           \/ {m.start, m.goal} = {<<0, n - 1>>, <<n - 1, 0>>}

Count(s, ch) == Cardinality({ k \in 1..Len(s) : s[k] = ch })

(***************************************************************************)
(* The claims.                                                             *)
(***************************************************************************)

\* C1: whenever solve with the A* strategy returns a path, its number of
\* steps len(path) - 1 is the breadth-first shortest step count from start
\* to goal; that is 4 on the 3x3 grid with a centre wall and 2(n-1) on a
\* wall-free n x n grid with start and goal at opposite corners.
C1_AStarShortest ==
    pc[1] = "returned" /\ IsAStar(1) =>
        /\ Steps(1) = ShortestSteps(maze)
        /\ CentreWall3x3(maze) => Steps(1) = 4
        /\ OpenSquareCorners(maze) => Steps(1) = 2 * (maze.height - 1)

C1_Witness ==
    /\ pc[1] = "returned" /\ IsAStar(1)
    /\ CentreWall3x3(maze)
    /\ Steps(1) = 4

\* C2: for either strategy, a returned path starts at start, ends at goal,
\* holds only in-bounds non-wall cells, and each state is followed by one of
\* its neighbors.
C2_PathValid ==
    pc[1] = "returned" =>
        LET path == result[1].path IN
        /\ Len(path) >= 1
        /\ path[1] = maze.start
        /\ path[Len(path)] = maze.goal
        /\ \A k \in 1..Len(path) : path[k] \in OpenCells(maze)
        /\ \A k \in 1..(Len(path) - 1) :
              /\ Adjacent(path[k], path[k + 1])
              /\ \E n \in 1..Len(Neighbors(maze, path[k])) :
                    Neighbors(maze, path[k])[n][2] = path[k + 1]

C2_Witness ==
    /\ pc[1] = "returned" /\ IsGreedy(1)
    /\ Len(result[1].path) >= 5
    /\ \E k \in 1..(Len(result[1].path) - 2) :
          /\ result[1].path[k][1] # result[1].path[k + 2][1]
          /\ result[1].path[k][2] # result[1].path[k + 2][2]

\* C3: for both strategies, a finished search returned a path exactly when
\* the goal is reachable from start, and raised the no-path error exactly
\* when it is not, the frontier then being empty and no goal node popped.
C3_PathIffReachable ==
    Finished(1) /\ (IsAStar(1) \/ IsGreedy(1)) =>
        /\ result[1].ok <=> GoalReachable(maze)
        /\ pc[1] = "returned" <=> GoalReachable(maze)
        /\ ~result[1].ok =>
              /\ result[1].at = "no path"
              /\ frontier[1] = <<>>
              /\ \A k \in 1..Len(popped[1]) : popped[1][k][1] # maze.goal

C3_Witness ==
    /\ pc[1] = "raised" /\ IsGreedy(1)
    /\ result[1].at = "no path"
    /\ ~GoalReachable(maze)
    /\ Len(popped[1]) >= 3

\* C4: every pop returns a frontier node of minimal priority key, the key
\* being cost + heuristic under A* and the heuristic alone under Greedy.
KeyOfNode(c, n) ==
    IF IsGreedy(c) THEN n.heuristic ELSE n.cost + n.heuristic

KeyOfTrace(c, t) ==
    IF IsGreedy(c) THEN t[3] ELSE t[2] + t[3]

C4_PopsMinimalKey ==
    [][ \A c \in Calls :
          popped'[c] # popped[c] =>
             \A k \in 1..Len(frontier[c]) :
                KeyOfTrace(c, popped'[c][Len(popped'[c])])
                   <= KeyOfNode(c, frontier[c][k]) ]_vars

\* C5: at every point of a search and in the returned result, the visited
\* set is the set of states a node was pushed for so far: the states of the
\* nodes still in the frontier and of the nodes popped.
PushedStates(c) ==
    { frontier[c][k].state : k \in 1..Len(frontier[c]) }
       \cup { popped[c][k][1] : k \in 1..Len(popped[c]) }

C5_VisitedIsPushed ==
    /\ all_visited[1] = PushedStates(1)
    /\ pc[1] = "returned" => result[1].all_visited = PushedStates(1)

C5_Witness ==
    /\ pc[1] = "returned"
    /\ Len(popped[1]) >= 3
    /\ \E k \in 1..Len(frontier[1]) :
          /\ frontier[1][k].state \in result[1].all_visited
          /\ \A q \in 1..Len(popped[1]) : popped[1][q][1] # frontier[1][k].state

\* C6: for either strategy, every state of a returned path is a member of
\* the returned visited set.
C6_PathInVisited ==
    pc[1] = "returned" =>
        \A k \in 1..Len(result[1].path) :
            result[1].path[k] \in result[1].all_visited

C6_Witness ==
    /\ pc[1] = "returned" /\ IsGreedy(1)
    /\ Len(result[1].path) >= 4
    /\ Cardinality(result[1].all_visited) > Len(result[1].path)

\* C7: two runs of solve on the same grid with the same strategy pop the
\* same node sequence and end the same way: the same path, actions and
\* visited set, or the same error.
C7_Deterministic ==
    Finished(1) /\ Finished(2) =>
        /\ algorithm[2] = algorithm[1]
        /\ popped[2] = popped[1]
        /\ result[2] = result[1]
        /\ pc[2] = pc[1]

C7_Witness ==
    /\ pc[1] = "returned" /\ pc[2] = "returned"
    /\ IsGreedy(2)
    /\ Len(popped[2]) >= 4
    /\ Len(result[2].path) >= 4

\* C8: a text whose number of 'A' markers, or of 'B' markers, is not one
\* makes the constructor fail.
C8_RejectsMarkerCount ==
    maze # NoMaze /\ (Count(maze_str, "A") # 1 \/ Count(maze_str, "B") # 1)
        => ~maze.ok

\* C9: for a rectangular text with one start and one goal the grid has one
\* row per input line and one column per character, cell (i, j) being a
\* wall exactly when character j of line i is '#'.
RectangularInput(lines) ==
    /\ Len(lines) >= 1
    /\ Len(lines[1]) >= 1
    /\ \A r \in 1..Len(lines) : Len(lines[r]) = Len(lines[1])

C9_KeepsEveryRow ==
    LET lines == Split(maze_str) IN
    /\ maze # NoMaze
    /\ RectangularInput(lines)
    /\ Count(maze_str, "A") = 1
    /\ Count(maze_str, "B") = 1
    => /\ maze.ok
       /\ maze.height = Len(lines)
       /\ maze.width = Len(lines[1])
       /\ \A cell \in CellsOf(Len(lines), Len(lines[1])) :
             Cell(maze, cell[1], cell[2]) = "#"
                <=> lines[cell[1] + 1][cell[2] + 1] = "#"

\* C10 as claimed: solve accepts exactly the selectors 'a-star' and
\* 'greedy' and raises the strategy error for every other one.
C10_AcceptsAStarName ==
    pc[1] # "idle" =>
        (algorithm[1] \in {<<"a", "-", "s", "t", "a", "r">>, GreedySel}
            <=> ~(pc[1] = "raised" /\ result[1].at = "algorithm"))

\* C10 as amended: solve accepts exactly the selectors that lower-case to
\* 'a*' or 'greedy' ('a*', 'A*', 'greedy'); for any other one, 'a-star'
\* included, it raises the strategy error with no frontier, best-cost table
\* or visited set created and no node popped.
StrategyError(c) == pc[c] = "raised" /\ result[c].at = "algorithm"

C10_AcceptsLowered ==
    pc[1] # "idle" =>
        /\ algorithm[1] \in {AStarSel, <<"A", "*">>, GreedySel}
              <=> ~StrategyError(1)
        /\ StrategyError(1) =>
              /\ result[1].error = "ValueError"
              /\ frontier[1] = <<>>
              /\ visited[1] = <<>>
              /\ all_visited[1] = {}
              /\ popped[1] = <<>>

C10_Witness ==
    /\ StrategyError(1)
    /\ algorithm[1] = <<"a", "-", "s", "t", "a", "r">>

\* C11: for every in-bounds cell, neighbors(cell) holds exactly the cells one
\* step to the right, below, to the left and above that are in bounds and
\* not '#', each with its action name, each once, in the order right, down,
\* left, up.  neighbors depends on the grid and the cell alone, so it is
\* evaluated on every cell of every grid up to the first expansion.
ActionNames == {"right", "down", "left", "up"}

Step(name) ==
    CASE name = "right" -> <<0, 1>>
      [] name = "down"  -> <<1, 0>>
      [] name = "left"  -> <<0, -1>>
      [] name = "up"    -> <<-1, 0>>

Rank(name) ==
    CASE name = "right" -> 1
      [] name = "down"  -> 2
      [] name = "left"  -> 3
      [] name = "up"    -> 4

Moved(cell, name) == <<cell[1] + Step(name)[1], cell[2] + Step(name)[2]>>

C11_NeighborsExact ==
    pc[1] = "loop" /\ Len(popped[1]) = 1 =>
        LET open == OpenCells(maze) IN
        \A cell \in CellsOf(maze.height, maze.width) :
            LET ns == Neighbors(maze, cell) IN
            /\ { ns[k] : k \in 1..Len(ns) }
                  = { <<name, Moved(cell, name)>> :
                        name \in { a \in ActionNames :
                                     Moved(cell, a) \in open } }
            /\ \A k \in 1..Len(ns), l \in 1..Len(ns) :
                  k < l => Rank(ns[k][1]) < Rank(ns[l][1])

\* neighbors has been called on a cell with a wall beside it and an edge of
\* the grid beside it, and returned two moves.
C11_Witness ==
    /\ pc[1] = "loop"
    /\ Len(popped[1]) = 1
    /\ LET cell == popped[1][Len(popped[1])][1] IN
       /\ Len(Neighbors(maze, cell)) = 2
       /\ \E a \in ActionNames :
             /\ Moved(cell, a) \in CellsOf(maze.height, maze.width)
             /\ Moved(cell, a) \notin OpenCells(maze)
       /\ \E a \in ActionNames :
             Moved(cell, a) \notin CellsOf(maze.height, maze.width)

\* C12: solve never modifies the grid, and under every interleaving of the
\* iterations of an A* call and a Greedy call on the same grid each call
\* pops the nodes and returns the result it does when it runs alone.
\* RunAlone is the loop of one call run from its start to its end with
\* nothing in between.
RECURSIVE RunLoop(_, _, _)
RunLoop(m, alg, st) ==
    IF st.frontier = <<>>
    THEN [popped |-> st.popped, pc |-> "raised",
          result |-> [ok |-> FALSE, error |-> "ValueError", at |-> "no path"]]
    ELSE LET pop == HeapPop(st.frontier)
             node == pop.item
             seen == Append(st.popped, Trace(node))
         IN  IF node.state = m.goal
             THEN [popped |-> seen, pc |-> "returned",
                   result |-> [ok |-> TRUE, path |-> PathOf(m, node),
                               actions |-> ActionsOf(node),
                               all_visited |-> st.all_visited]]
             ELSE LET next == ExpandMoves(m, alg, node, Neighbors(m, node.state),
                                  [frontier |-> pop.heap,
                                   visited |-> st.visited,
                                   all_visited |-> st.all_visited])
                  IN  RunLoop(m, alg,
                              [frontier |-> next.frontier,
                               visited |-> next.visited,
                               all_visited |-> next.all_visited,
                               popped |-> seen])

RunAlone(m, alg) ==
    RunLoop(m, alg,
            [frontier |-> HeapPush(<<>>, Node(m.start, None, None, 0,
                                              Heuristic(m, m.start))),
             visited |-> SetItem(<<>>, m.start, 0),
             all_visited |-> {m.start},
             popped |-> <<>>])

C12_NoInterference ==
    /\ maze.ok => maze = MazeInit(maze_str)
    /\ \A c \in Calls :
          Finished(c) =>
             /\ pc[c] = RunAlone(maze, algorithm[c]).pc
             /\ result[c] = RunAlone(maze, algorithm[c]).result
             /\ popped[c] = RunAlone(maze, algorithm[c]).popped

\* The A* call has returned while the Greedy call, started before it ended,
\* is in the middle of its search.
C12_Witness ==
    /\ pc[1] = "returned" /\ IsAStar(1)
    /\ pc[2] = "loop" /\ IsGreedy(2)
    /\ Len(popped[2]) >= 2
    /\ Len(popped[2]) < Len(popped[1])
    /\ maze = MazeInit(maze_str)

\* The order in which the nodes of call c were pushed: the start node
\* first, then by the position of the parent in the record of pops (the
\* parent was expanded at that pop), then by the place of the move in the
\* list neighbors returns.  A state is pushed again only at a smaller cost,
\* so state and cost name one node.
PoppedAt(c, node) ==
    CHOOSE k \in 1..Len(popped[c]) : popped[c][k] = Trace(node)

PushOrder(c, node) ==
    IF node.parent = None THEN <<0, 0>>
    ELSE <<PoppedAt(c, node.parent), Rank(node.action)>>

PushedBefore(c, a, b) ==
    \/ PushOrder(c, a)[1] < PushOrder(c, b)[1]
    \/ /\ PushOrder(c, a)[1] = PushOrder(c, b)[1]
       /\ PushOrder(c, a)[2] < PushOrder(c, b)[2]

Key(n) == n.cost + n.heuristic

FrontierNodes(c) == { frontier[c][k] : k \in 1..Len(frontier[c]) }

SmallestKey(c) == { n \in FrontierNodes(c) :
                      \A o \in FrontierNodes(c) : Key(n) <= Key(o) }

\* C13 as claimed: of the frontier nodes that share the smallest key, the
\* pop returns the one pushed earliest.
C13_PopsEarliestPushed ==
    pc[1] = "loop" /\ frontier[1] # <<>> =>
        \A n \in SmallestKey(1) :
            ~PushedBefore(1, n, HeapPop(frontier[1]).item)

\* C13 as amended: the pop returns a node of smallest key cost + heuristic,
\* the one at the root of the heap; among several of that key the heap's
\* layout decides, and it is not always the one pushed earliest.
C13_PopsRootOfSmallestKey ==
    pc[1] = "loop" /\ frontier[1] # <<>> =>
        LET item == HeapPop(frontier[1]).item
        IN  /\ item = frontier[1][1]
            /\ \A o \in FrontierNodes(1) : Key(item) <= Key(o)

\* A pop is about to return, and then has returned, a node pushed after
\* another one of the same smallest key.
C13_Witness ==
    /\ pc[1] = "loop" /\ frontier[1] # <<>>
    /\ Len(popped[1]) >= 1
    /\ \E n \in SmallestKey(1) :
          PushedBefore(1, n, HeapPop(frontier[1]).item)

\* C14: over every step of a search the best-cost table only improves: no
\* entry is removed, no recorded cost increases, a node is pushed and its
\* entry written only for a state that had no recorded cost or a strictly
\* greater one, every entry that changes belongs to a node pushed in that
\* step, and the entry of start is 0 before and after.
PushedInStep(c) ==
    { frontier'[c][k] : k \in 1..Len(frontier'[c]) } \ FrontierNodes(c)

C14_TableOnlyImproves ==
    [][ pc[1] = "loop" =>
          /\ DOMAIN visited[1] \subseteq DOMAIN visited'[1]
          /\ \A s \in DOMAIN visited[1] : visited'[1][s] <= visited[1][s]
          /\ \A n \in PushedInStep(1) :
                /\ \/ n.state \notin DOMAIN visited[1]
                   \/ n.cost < visited[1][n.state]
                /\ visited'[1][n.state] = n.cost
          /\ \A s \in DOMAIN visited'[1] :
                (s \notin DOMAIN visited[1] \/ visited'[1][s] # visited[1][s])
                   => \E n \in PushedInStep(1) : n.state = s
          /\ visited[1][maze.start] = 0
          /\ visited'[1][maze.start] = 0 ]_vars

\* An entry has been lowered: the frontier holds a node of a state whose
\* recorded cost is now smaller than the node's.
C14_Witness ==
    /\ pc[1] = "loop"
    /\ \E n \in FrontierNodes(1) : visited[1][n.state] < n.cost

\* The room left for pushes: the recorded cost of every open cell, a cell
\* without one counting as the number of open cells, which no cost reaches.
RECURSIVE Room(_, _, _)
Room(vis, cells, big) ==
    IF cells = {} THEN 0
    ELSE LET s == CHOOSE x \in cells : TRUE
         IN  (IF s \in DOMAIN vis THEN vis[s] ELSE big)
                + Room(vis, cells \ {s}, big)

RoomOf(vis) == Room(vis, OpenCells(maze), Cardinality(OpenCells(maze)))

\* C15: solve terminates on every grid with either strategy: the loop
\* eventually pops a goal node or empties the frontier, because every push
\* uses up room (a strict improvement of a recorded cost) and an iteration
\* that pushes nothing shortens the frontier.
C15_Terminates ==
    /\ [](maze.ok /\ pc[1] = "loop" => <>Finished(1))
    /\ [][ pc[1] = "loop" /\ pc'[1] = "loop" =>
             /\ Cardinality(PushedInStep(1))
                   <= RoomOf(visited[1]) - RoomOf(visited'[1])
             /\ Len(frontier'[1])
                   = Len(frontier[1]) - 1 + Cardinality(PushedInStep(1)) ]_vars

\* A search has ended after a state was pushed a second time: a node popped
\* on the way cost more than its state's entry.
C15_Witness ==
    /\ Finished(1)
    /\ \E k \in 1..Len(popped[1]) :
          popped[1][k][2] > visited[1][popped[1][k][1]]

\* C16: in a successful result the path begins with the start cell, the
\* action sequence has one entry per later state, len(actions) = len(path)
\* - 1, and applying actions[i] (right, down, left or up) to path[i] gives
\* path[i+1].
C16_ActionsMatchPath ==
    pc[1] = "returned" =>
        LET path == result[1].path
            actions == result[1].actions
        IN  /\ path[1] = maze.start
            /\ Len(actions) = Len(path) - 1
            /\ \A i \in 1..Len(actions) :
                  /\ actions[i] \in ActionNames
                  /\ Moved(path[i], actions[i]) = path[i + 1]

\* A returned path of at least three steps that turns.
C16_Witness ==
    /\ pc[1] = "returned"
    /\ Len(result[1].actions) >= 3
    /\ \E i \in 1..Len(result[1].actions) :
          result[1].actions[i] # result[1].actions[1]

Diff(x, y) == IF x >= y THEN x - y ELSE y - x

Manhattan(a, b) == Diff(a[1], b[1]) + Diff(a[2], b[2])

\* Steps of a shortest walk from cell to the goal; -1 if there is none.
StepsToGoal(m, cell) == BfsSteps(m, {cell}, {cell}, 0)

\* C17: heuristic(cell) is the Manhattan distance from cell to the goal;
\* it is never greater than the shortest step count from a cell that
\* reaches the goal, heuristic(cell) <= 1 + heuristic(n) for every
\* (action, n) in neighbors(cell), and heuristic(goal) = 0.  The heuristic
\* kept in every popped node is that value.
C17_HeuristicManhattan ==
    pc[1] = "loop" /\ Len(popped[1]) = 1 =>
        /\ \A cell \in CellsOf(maze.height, maze.width) :
              LET ns == Neighbors(maze, cell) IN
              /\ Heuristic(maze, cell) = Manhattan(cell, maze.goal)
              /\ StepsToGoal(maze, cell) >= 0
                    => Heuristic(maze, cell) <= StepsToGoal(maze, cell)
              /\ \A k \in 1..Len(ns) :
                    Heuristic(maze, cell) <= 1 + Heuristic(maze, ns[k][2])
        /\ Heuristic(maze, maze.goal) = 0
        /\ \A k \in 1..Len(popped[1]) :
              popped[1][k][3] = Manhattan(popped[1][k][1], maze.goal)

\* A node has been popped whose heuristic is smaller than the steps its
\* state needs to the goal, walls being in the way.
C17_Witness ==
    /\ pc[1] = "loop"
    /\ Len(popped[1]) = 1
    /\ popped[1][1][3] > 0
    /\ popped[1][1][3] < StepsToGoal(maze, popped[1][1][1])

IsPrefix(s, t) == Len(s) <= Len(t) /\ \A k \in 1..Len(s) : s[k] = t[k]

C19_StaleHarmless ==
    [][ pc[1] = "loop" /\ frontier[1] # <<>> =>
          LET pop == HeapPop(frontier[1])
              last == popped'[1][Len(popped'[1])]
          IN  /\ pop.item.cost > visited[1][pop.item.state] =>
                    /\ pop.item.state # maze.goal
                    /\ frontier'[1] = pop.heap
                    /\ visited'[1] = visited[1]
                    /\ all_visited'[1] = all_visited[1]
              /\ pc'[1] = "returned" =>
                    /\ last[1] = maze.goal
                    /\ last[2] = visited'[1][maze.goal]
                    /\ Len(result'[1].path) - 1 = visited'[1][maze.goal] ]_vars

\* A search has returned a path after it popped and expanded a node that
\* cost more than the table held for its state.
C19_Witness ==
    /\ pc[1] = "returned"
    /\ \E k \in 1..(Len(popped[1]) - 1) :
          popped[1][k][2] > visited[1][popped[1][k][1]]
    /\ Len(result[1].path) - 1 = visited[1][maze.goal]

=============================================================================
